---- MODULE Spec2Model ----
(***************************************************************************)
(* Batch coprocessor dispatch core of store/copr/batch_coprocessor.go and  *)
(* store/tikv/batch_request_sender.go:                                      *)
(*   - balanceBatchCopTask  (the task balancer),                           *)
(*   - buildBatchCopTasks   (the task planner),                            *)
(*   - batchCopIterator     (run / Next / Close / handleTask ...).         *)
(***************************************************************************)
EXTENDS Integers, Sequences, FiniteSets, TLC

(***************************************************************************)
(* Bounds of the model.                                                    *)
(***************************************************************************)
\* non-pinned regions of a draft handed to the balancer
MaxCand == 3

\* capacity of b.respChan (2048 at line 316; here a queue that fills up)
RespChanCap == 1
\* sub-responses a stream delivers at most
MaxStream == 2
\* backoff cycles a Backoffer sleeps before its budget is used up
MaxBackoff == 1
\* tasks a re-plan returns at most
MaxNewTasks == 1
\* regions SplitKeyRanges yields in a planning pass
NumRegions == 4
\* calls of SendReqToAddr on one Backoffer
MaxCalls == 2
\* the stores the topology cache resolves a region to
PlanStores == 1..2

\* the stores of the cluster
Stores == 1..4
\* the numbers of draft tasks: the draft tasks stand for the stores 1..p
TaskCounts == 1..2
\* the lengths of a region's AllStores
ReplicaCounts == 1..3

(***************************************************************************)
(* Helpers on sequences and sets.                                          *)
(***************************************************************************)
Range(s) == {s[i] : i \in DOMAIN s}

\* all orders in which a `for ... range m` over a Go map with key set S may run
Orders(S) == {f \in [1..Cardinality(S) -> S] : \A i, j \in DOMAIN f : i # j => f[i] # f[j]}

Min(S) == CHOOSE x \in S : \A y \in S : x <= y

RECURSIVE Ascending(_)
Ascending(S) == IF S = {} THEN <<>> ELSE <<Min(S)>> \o Ascending(S \ {Min(S)})

RECURSIVE SeqSum(_)
SeqSum(s) == IF s = <<>> THEN 0 ELSE Head(s) + SeqSum(Tail(s))

\* number of occurrences of x in the sequence s
Count(x, s) == Cardinality({i \in DOMAIN s : s[i] = x})

RECURSIVE Flatten(_)
Flatten(ss) == IF ss = <<>> THEN <<>> ELSE Head(ss) \o Flatten(Tail(ss))

(***************************************************************************)
(* Data model: tikv.RegionInfo and batchCopTask.                           *)
(***************************************************************************)
\* tikv.RegionInfo{Region, Meta, Ranges, AllStores}; Meta and Ranges are opaque to
\* the balancer and left out.
RegionInfo(region, allStores) == [Region |-> region, AllStores |-> allStores]

\* ri.Region.String(): the map key of a region. RegionVerID.String() prints the id
\* and both versions, so distinct RegionVerIDs have distinct keys.
RegionString(region) == <<"region", region>>

\* the address the topology cache binds to a store
AddrOf(s) == <<"addr", s>>

\* a *tikv.RPCContext for store s; the nil pointer is <<>>
RPCContextOf(s) == <<s>>
NilCtx == <<>>

batchCopTask(storeAddr, cmdType, ctx, regionInfos) ==
    [storeAddr |-> storeAddr, cmdType |-> cmdType, ctx |-> ctx, regionInfos |-> regionInfos]

VARIABLES
    \* ---- balanceBatchCopTask
    originalTasks,          \* the argument: the draft list
    storeTaskMap,           \* map[uint64]*batchCopTask
    storeCandidateTaskMap,  \* map[uint64]map[string]RegionInfo
    totalCandidateStoreNum,
    totalCandidateCopTaskNum,
    avgStorePerTask,        \* a float64, kept as the quotient <<num, den>> it was computed from
    store,                  \* the current store of the loop; NoStore is math.MaxUint64
    possibleTaskNum,        \* a float64, see Float below
    balPc,                  \* "call" | "built" | "loop" | "returned" | "panic" | "hang" | "idle"
    balRet                  \* the returned task list

balVars == <<originalTasks, storeTaskMap, storeCandidateTaskMap, totalCandidateStoreNum,
             totalCandidateCopTaskNum, avgStorePerTask, store, possibleTaskNum, balPc, balRet>>

VARIABLES
    \* ---- buildBatchCopTasks
    planPc,          \* "split" | "lookup" | "balance" | "returned" | "cacheError" |
                     \* "backoffError" ("idle": not called)
    planPass,        \* the passes of the loop of line 223 begun so far
    planIdx,         \* the next region of the pass to look up, counted from 1
    planMap,         \* storeTaskMap of line 241, in insertion order
    needRetry,       \* needRetry of line 242
    planBo,          \* the backoff cycles the Backoffer has slept
    planBoPass,      \* the Backoff(BoRegionMiss) calls of the current pass
    planRet          \* the tasks buildBatchCopTasks returns

planVars == <<planPc, planPass, planIdx, planMap, needRetry, planBo, planBoPass, planRet>>

VARIABLES
    \* ---- batchCopIterator
    conf,            \* the request and its surroundings: len(b.tasks), the callers of
                     \* Close, whether the caller cancels or kills, how long streams
                     \* get, the budget of a Backoffer, the tasks a re-plan returns at most
    closed,          \* b.closed
    finishCh,        \* b.finishCh: "open" | "closed"
    finishCloses,    \* how many times close(b.finishCh) ran
    respChan,        \* b.respChan: the buffered results
    respChanClosed,  \* close(b.respChan) ran
    panics,          \* the run-time panics raised so far
    wg,              \* b.wg: the counter of the WaitGroup
    ctxDone,         \* the caller's context is cancelled
    killed,          \* *b.vars.Killed = 1
    rpcLive,         \* b.rpcCancel: the workers with a registered in-flight RPC
    rpcCancelled,    \* the workers whose in-flight RPC was cancelled by CancelAll
    runPc,           \* run: "spawn" | "wait" | "close" | "done" ("idle": no iterator)
    runIdx,          \* run: the next task of b.tasks to start a worker for
    wPc,             \* handleTask of each task of b.tasks
    wLen,            \* handleTask: len(tasks)
    wIdx,            \* handleTask: idx, counted from 1
    wSeq,            \* the sub-responses received from the current stream
    wStream,         \* what the last receive from the current stream returned
    wOut,            \* the batchCopResponse handed to sendToRespCh
    wErr,            \* the error handleTaskOnce returned
    wBo,             \* the backoff cycles the worker's Backoffer has slept
    wBackoffs,       \* the Backoff calls of the current handleTaskOnce: <<category, succeeded>>
    wSent,           \* the results of the current task that entered b.respChan
    wExit,           \* sendToRespCh returned exit = true for the current task
    nPc,             \* Next: "idle" | "select" | "closeFinish"
    nextRet,         \* what the last Next call returned
    nAfterCancel,    \* the context was already cancelled when that call began
    cPc,             \* Close calls: "idle" | "closeFinish" | "cancel" | "wait" | "returned"
    wTasks,          \* handleTask: tasks; a task is its regionInfos, a regionInfo is
                     \* its Ranges
    wPlanned,        \* history: the ranges retryBatchCopTask handed to the planner
    enqueued,        \* history: the results that entered b.respChan, in order
    delivered        \* history: the results Next took from b.respChan, in order; both
                     \* are kept where conf.log

chanVars == <<closed, finishCh, finishCloses, respChan, respChanClosed, panics>>
envVars == <<ctxDone, killed>>
rpcVars == <<rpcLive, rpcCancelled>>
runVars == <<wg, runPc, runIdx>>
workerVars == <<wPc, wLen, wIdx, wSeq, wStream, wOut, wErr, wBo, wBackoffs, wSent, wExit>>
nextVars == <<nPc, nextRet, nAfterCancel>>
logVars == <<enqueued, delivered>>
taskVars == <<wTasks, wPlanned>>
itVars == <<conf, chanVars, envVars, rpcVars, runVars, workerVars, nextVars, cPc, logVars,
            taskVars>>

VARIABLES
    \* ---- RegionBatchRequestSender.SendReqToAddr
    sndPc,           \* "dispatch" | "onfail" | "backoff" | "returned" | "panic"
                     \* ("idle": not called yet, "off": no sender)
    sndCalls,        \* the calls of SendReqToAddr begun so far, on one Backoffer
    sndRpcCtx,       \* rpcCtx of the call
    sndCancel,       \* cancel: "noop" (line 50) or "rpc" (line 56)
    sndRpcLive,      \* the RPCCanceller holds the cancel function of the call
    sndErr,          \* err of line 59
    ShuttingDown,    \* the process-wide ShuttingDown flag
    sndShutAtFail,   \* history: ShuttingDown > 0 when onSendFailForBatchRegions ran
    sndNotified,     \* history: OnSendFailForBatchRegions calls of this call
    sndBackoffs,     \* history: the Backoff calls of this call: category, success
    sndBo,           \* the backoff cycles the Backoffer has slept
    sndRet           \* what the call returned: resp, retry, cancel, err

sndVars == <<sndPc, sndCalls, sndRpcCtx, sndCancel, sndRpcLive, sndErr, ShuttingDown,
             sndShutAtFail, sndNotified, sndBackoffs, sndBo, sndRet>>

vars == <<sndVars, balVars, planVars, itVars>>

(***************************************************************************)
(* float64 values of the balancer. Every value it computes is an integer   *)
(* quotient c / (a / b) + n; it is kept exactly, with +Inf (division of a  *)
(* positive count by 0) and NaN (0 / 0) as in IEEE 754.                    *)
(***************************************************************************)
Finite(n, d) == [kind |-> "fin", n |-> n, d |-> d]
PosInf == [kind |-> "inf", n |-> 1, d |-> 0]
NaN == [kind |-> "nan", n |-> 0, d |-> 0]
FloatZero == Finite(0, 1)

\* float64(c)/avg + float64(n), for avg = float64(a)/float64(b) with b > 0, c >= 0
Projected(c, avg, n) ==
    LET a == avg[1]
        b == avg[2]
    IN  IF a > 0 THEN Finite(c * b + n * a, a)
        ELSE IF a < 0 THEN Finite(-(c * b + n * a), -a)
        ELSE IF c > 0 THEN PosInf
        ELSE NaN

FloatLE(x, y) ==
    IF x.kind = "nan" \/ y.kind = "nan" THEN FALSE
    ELSE IF y.kind = "inf" THEN TRUE
    ELSE IF x.kind = "inf" THEN FALSE
    ELSE x.n * y.d <= y.n * x.d

FloatLT(x, y) ==
    IF x.kind = "nan" \/ y.kind = "nan" THEN FALSE
    ELSE IF x.kind = "inf" THEN FALSE
    ELSE IF y.kind = "inf" THEN TRUE
    ELSE x.n * y.d < y.n * x.d

NoStore == 0

\* len(storeCandidateTaskMap[id]); a missing map has length 0. A candidate map
\* map[string]RegionInfo is a function from region keys to RegionInfo.
CandLen(cand, id) == IF id \in DOMAIN cand THEN Cardinality(DOMAIN cand[id]) ELSE 0

MapPut(m, k, v) == [x \in DOMAIN m \cup {k} |-> IF x = k THEN v ELSE m[x]]
MapDelete(m, k) == [x \in DOMAIN m \ {k} |-> m[x]]
EmptyMap == [x \in {} |-> 0]

(***************************************************************************)
(* balanceBatchCopTask, lines 107-114: one new batchCopTask per primary    *)
(* store, holding the pinned region. The literal sets storeAddr, cmdType   *)
(* and regionInfos; ctx keeps its zero value.                              *)
(***************************************************************************)
PrimaryOf(task) == task.regionInfos[1].AllStores[1]

\* the batchCopTask literal of lines 108-112
PinnedTask(task) == batchCopTask(task.storeAddr, task.cmdType, NilCtx, <<task.regionInfos[1]>>)

\* a later draft task with the same primary overwrites the earlier map entry
InitStoreTaskMap(tasks) ==
    [s \in {PrimaryOf(tasks[i]) : i \in DOMAIN tasks} |->
        LET last == CHOOSE i \in DOMAIN tasks :
                        /\ PrimaryOf(tasks[i]) = s
                        /\ \A j \in DOMAIN tasks : PrimaryOf(tasks[j]) = s => j <= i
        IN  PinnedTask(tasks[last])]

(***************************************************************************)
(* Lines 115-157: every non-pinned region either joins the task of its     *)
(* draft's primary store or becomes a candidate.                           *)
(***************************************************************************)
\* lines 119-131
ValidStoreNum(ri, stm) ==
    IF Len(ri.AllStores) <= 1 THEN 1
    ELSE Cardinality({i \in DOMAIN ri.AllStores : ri.AllStores[i] \in DOMAIN stm})

\* a variant of AppendRegion that puts the region in front of the pinned one
AppendRegionFront(stm, s, ri) ==
    [stm EXCEPT ![s].regionInfos = <<ri>> \o @]

\* a variant of AppendRegion that gives the region to the task of the lowest store
AppendRegionToLowest(stm, s, ri) ==
    [stm EXCEPT ![Min(DOMAIN stm)].regionInfos = Append(@, ri)]

\* line 134
AppendRegion(stm, s, ri) ==
    [stm EXCEPT ![s].regionInfos = Append(@, ri)]

\* lines 142-154: the stores whose candidate map receives the region
CandidateTargets(ri) == Range(ri.AllStores)

\* a variant of IsDuplicated without the guard
IsDuplicatedNever(cand, ri) == FALSE

\* lines 143-147: the key is already in the candidate map of one of the stores
IsDuplicated(cand, ri) ==
    \E id \in CandidateTargets(ri) :
        id \in DOMAIN cand /\ RegionString(ri.Region) \in DOMAIN cand[id]

PutCandidate(cand, ri) ==
    [id \in DOMAIN cand \cup CandidateTargets(ri) |->
        IF id \in CandidateTargets(ri)
        THEN MapPut(IF id \in DOMAIN cand THEN cand[id] ELSE EmptyMap, RegionString(ri.Region), ri)
        ELSE cand[id]]

\* the body of the loop of line 117 for one non-pinned region of the draft task of
\* store taskStoreID
ClassifyRegion(acc, taskStoreID, ri) ==
    LET v == ValidStoreNum(ri, acc.stm)
    IN  IF v = 1
        THEN [acc EXCEPT !.stm = AppendRegion(acc.stm, taskStoreID, ri)]
        ELSE IF IsDuplicated(acc.cand, ri)
        THEN [acc EXCEPT !.dup = TRUE]
        ELSE [acc EXCEPT !.cand = PutCandidate(acc.cand, ri),
                         !.ts = @ + v,
                         !.tt = @ + 1]

\* the non-pinned regions of the draft in the order the loops of lines 115-117 visit
\* them, each with the primary store of its draft task
NonPinned(tasks) ==
    Flatten([t \in DOMAIN tasks |->
                [k \in 1..(Len(tasks[t].regionInfos) - 1) |->
                    <<PrimaryOf(tasks[t]), tasks[t].regionInfos[k + 1]>>]])

RECURSIVE ClassifyAll(_, _)
ClassifyAll(acc, entries) ==
    IF entries = <<>> \/ acc.dup THEN acc
    ELSE ClassifyAll(ClassifyRegion(acc, Head(entries)[1], Head(entries)[2]), Tail(entries))

\* lines 103-157
BuildMaps(tasks) ==
    ClassifyAll([stm |-> InitStoreTaskMap(tasks), cand |-> EmptyMap, ts |-> 0, tt |-> 0,
                 dup |-> FALSE],
                NonPinned(tasks))

(***************************************************************************)
(* findNextStore, lines 160-180, for one iteration order of storeTaskMap.  *)
(***************************************************************************)
RECURSIVE FindNextStoreFrom(_, _, _, _, _)
FindNextStoreFrom(order, cur, stm, cand, avg) ==
    IF order = <<>> THEN cur
    ELSE LET storeID == Head(order)
             c == CandLen(cand, storeID)
             n == Len(stm[storeID].regionInfos)
             num == Projected(c, avg, 0)
             sum == Projected(c, avg, n)
             next ==
                 IF cur[1] = NoStore /\ c > 0 THEN <<storeID, sum>>
                 ELSE IF num.kind = "fin" /\ num.n = 0 THEN cur
                 ELSE IF FloatLT(sum, cur[2]) THEN <<storeID, sum>>
                 ELSE cur
         IN  FindNextStoreFrom(Tail(order), next, stm, cand, avg)

findNextStore(order, stm, cand, avg) ==
    FindNextStoreFrom(order, <<NoStore, FloatZero>>, stm, cand, avg)

(***************************************************************************)
(* Lines 192-197: the region leaves the candidate map of every store of    *)
(* its AllStores that has a candidate map, and the pair count drops by one *)
(* for each such store.                                                    *)
(***************************************************************************)
StoresToClear(cand, ri) == {i \in DOMAIN ri.AllStores : ri.AllStores[i] \in DOMAIN cand}

DeleteCandidate(cand, ri) ==
    [id \in DOMAIN cand |->
        IF id \in Range(ri.AllStores) THEN MapDelete(cand[id], RegionString(ri.Region))
        ELSE cand[id]]

(***************************************************************************)
(* Lines 201-206: after an assignment, walk the stores of the assigned     *)
(* region and move to one whose projected load is not larger. Reading      *)
(* storeTaskMap[id].regionInfos of a store without a task dereferences nil.*)
(***************************************************************************)
\* a loop that stays with its store
SwitchStoreNever(ids, cur, stm, cand, avg) == cur

RECURSIVE SwitchStore(_, _, _, _, _)
SwitchStore(ids, cur, stm, cand, avg) ==
    IF ids = <<>> \/ cur.panic THEN cur
    ELSE LET id == Head(ids)
         IN  IF id # cur.store /\ CandLen(cand, id) > 0
             THEN IF id \notin DOMAIN stm
                  THEN [cur EXCEPT !.panic = TRUE]
                  ELSE LET load == Projected(CandLen(cand, id), avg, Len(stm[id].regionInfos))
                       IN  IF FloatLE(load, cur.ptn)
                           THEN SwitchStore(Tail(ids), [cur EXCEPT !.store = id, !.ptn = load],
                                            stm, cand, avg)
                           ELSE SwitchStore(Tail(ids), cur, stm, cand, avg)
             ELSE SwitchStore(Tail(ids), cur, stm, cand, avg)

(***************************************************************************)
(* The inputs: draft lists as buildBatchCopTasks groups them. The draft    *)
(* tasks stand for the stores 1..p, each region's AllStores starts with    *)
(* the store of its draft task and lists distinct stores (the primary,     *)
(* then the others in ascending order). At most one pair of regions shares *)
(* a region key.                                                           *)
(***************************************************************************)
CmdBatchCop == "CmdBatchCop"

\* the AllStores lists with primary s
AllStoresOf(s) ==
    {<<s>> \o Ascending(R) : R \in {T \in SUBSET (Stores \ {s}) : Cardinality(T) + 1 \in ReplicaCounts}}

\* a draft from: p tasks, the AllStores of the pinned regions, the non-pinned regions
\* (primary and AllStores) in order, and the pair dup of region numbers sharing a key
\* (<<0, 0>>: none). Regions are numbered pinned first.
DraftOf(p, cands, dup) ==
    LET key(j) == IF dup[2] = j THEN dup[1] ELSE j
        mine(s) == Ascending({i \in DOMAIN cands : cands[i][1] = s})
    IN  [s \in 1..p |->
            batchCopTask(AddrOf(s), CmdBatchCop, RPCContextOf(s),
                <<RegionInfo(key(s), <<s>>)>> \o
                [k \in DOMAIN mine(s) |->
                    RegionInfo(key(p + mine(s)[k]), cands[mine(s)[k]])])]

\* an order on AllStores lists: by primary, then by the set of the other stores
RECURSIVE StoreSetCode(_)
StoreSetCode(S) == IF S = {} THEN 0 ELSE 2 ^ Min(S) + StoreSetCode(S \ {Min(S)})
AllStoresCode(as) == as[1] * 2 ^ (Cardinality(Stores) + 1) + StoreSetCode(Range(Tail(as)))

\* the non-pinned regions of a draft of p tasks: n AllStores lists, numbered in
\* ascending order (the balancer keeps candidates in maps, which have no order)
CandChoices(p, n) ==
    {c \in [1..n -> UNION {AllStoresOf(s) : s \in 1..p}] :
        \A i \in 1..(n - 1) : AllStoresCode(c[i]) <= AllStoresCode(c[i + 1])}

\* the pairs of region numbers that may share a key, among m regions
DupChoices(m) == {<<0, 0>>} \cup {d \in (1..m) \X (1..m) : d[1] < d[2]}

\* originalTasks is a draft of the family
IsDraft(tasks) ==
    \E p \in TaskCounts, n \in 0..MaxCand :
        \E cands \in CandChoices(p, n), dup \in DupChoices(p + n) :
            tasks = DraftOf(p, cands, dup)

(***************************************************************************)
(* balanceBatchCopTask as a state machine.                                 *)
(***************************************************************************)
BalUnset ==
    /\ storeTaskMap = EmptyMap
    /\ storeCandidateTaskMap = EmptyMap
    /\ totalCandidateStoreNum = 0
    /\ totalCandidateCopTaskNum = 0
    /\ avgStorePerTask = <<0, 1>>
    /\ store = NoStore
    /\ possibleTaskNum = FloatZero
    /\ balRet = <<>>

\* balanceBatchCopTask is called with a draft of the family
BalCalled ==
    /\ IsDraft(originalTasks)
    /\ balPc = "call"
    /\ BalUnset

\* lines 103-157; line 146 returns the draft itself
BalBuild ==
    /\ balPc = "call"
    /\ LET b == BuildMaps(originalTasks)
       IN  IF b.dup
           THEN /\ balPc' = "returned"
                /\ balRet' = originalTasks
                /\ UNCHANGED <<storeTaskMap, storeCandidateTaskMap, totalCandidateStoreNum,
                               totalCandidateCopTaskNum>>
           ELSE /\ balPc' = "built"
                /\ storeTaskMap' = b.stm
                /\ storeCandidateTaskMap' = b.cand
                /\ totalCandidateStoreNum' = b.ts
                /\ totalCandidateCopTaskNum' = b.tt
                /\ UNCHANGED balRet
    /\ UNCHANGED <<originalTasks, avgStorePerTask, store, possibleTaskNum>>
    /\ UNCHANGED <<sndVars, planVars, itVars>>

\* lines 181-183: no candidate, the draft is returned
BalNoCandidate ==
    /\ balPc = "built"
    /\ totalCandidateStoreNum = 0
    /\ balPc' = "returned"
    /\ balRet' = originalTasks
    /\ UNCHANGED <<originalTasks, storeTaskMap, storeCandidateTaskMap, totalCandidateStoreNum,
                   totalCandidateCopTaskNum, avgStorePerTask, store, possibleTaskNum>>
    /\ UNCHANGED <<sndVars, planVars, itVars>>

\* lines 159 and 184
BalFirstStore ==
    /\ balPc = "built"
    /\ totalCandidateStoreNum # 0
    /\ \E order \in Orders(DOMAIN storeTaskMap) :
          LET avg == <<totalCandidateStoreNum, totalCandidateCopTaskNum>>
              f == findNextStore(order, storeTaskMap, storeCandidateTaskMap, avg)
          IN  /\ avgStorePerTask' = avg
              /\ store' = f[1]
              /\ possibleTaskNum' = f[2]
    /\ balPc' = "loop"
    /\ UNCHANGED <<originalTasks, storeTaskMap, storeCandidateTaskMap, totalCandidateStoreNum,
                   totalCandidateCopTaskNum, balRet>>
    /\ UNCHANGED <<sndVars, planVars, itVars>>

\* one iteration of the loop of lines 185-210 that starts at store s0 with projected
\* load p0 (after line 187) and takes the candidate ri of s0
AssignOne(s0, p0, ri) ==
    LET stm == AppendRegion(storeTaskMap, s0, ri)
        tt == totalCandidateCopTaskNum - 1
        ts == totalCandidateStoreNum - Cardinality(StoresToClear(storeCandidateTaskMap, ri))
        cand == DeleteCandidate(storeCandidateTaskMap, ri)
        ptn == Projected(CandLen(cand, s0), avgStorePerTask, Len(stm[s0].regionInfos))
        avg == <<ts, tt>>
        sw == SwitchStore(ri.AllStores, [store |-> s0, ptn |-> ptn, panic |-> FALSE],
                          stm, cand, avg)
    IN  /\ storeTaskMap' = stm
        /\ storeCandidateTaskMap' = cand
        /\ totalCandidateCopTaskNum' = tt
        /\ totalCandidateStoreNum' = ts
        /\ IF tt > 0
           THEN /\ avgStorePerTask' = avg
                /\ store' = sw.store
                /\ possibleTaskNum' = sw.ptn
                /\ balPc' = IF sw.panic THEN "panic" ELSE "loop"
           ELSE /\ avgStorePerTask' = avgStorePerTask
                /\ store' = s0
                /\ possibleTaskNum' = p0
                /\ balPc' = "loop"

\* lines 185-210, one iteration; the range of line 189 yields any entry of the map.
\* With no entry to take the iteration changes nothing and the loop never ends.
BalAssign ==
    /\ balPc = "loop"
    /\ totalCandidateStoreNum > 0
    /\ \E order \in Orders(DOMAIN storeTaskMap) :
          LET f == IF CandLen(storeCandidateTaskMap, store) = 0
                   THEN findNextStore(order, storeTaskMap, storeCandidateTaskMap, avgStorePerTask)
                   ELSE <<store, possibleTaskNum>>
          IN  IF CandLen(storeCandidateTaskMap, f[1]) = 0
              THEN /\ balPc' = "hang"
                   /\ store' = f[1]
                   /\ possibleTaskNum' = f[2]
                   /\ UNCHANGED <<storeTaskMap, storeCandidateTaskMap, totalCandidateStoreNum,
                                  totalCandidateCopTaskNum, avgStorePerTask>>
              ELSE \E key \in DOMAIN storeCandidateTaskMap[f[1]] :
                       AssignOne(f[1], f[2], storeCandidateTaskMap[f[1]][key])
    /\ UNCHANGED <<originalTasks, balRet>>
    /\ UNCHANGED <<sndVars, planVars, itVars>>

\* lines 212-216: the tasks of storeTaskMap in the order the map yields them
BalCollect ==
    /\ balPc = "loop"
    /\ totalCandidateStoreNum <= 0
    /\ \E order \in Orders(DOMAIN storeTaskMap) :
          balRet' = [i \in DOMAIN order |-> storeTaskMap[order[i]]]
    /\ balPc' = "returned"
    /\ UNCHANGED <<originalTasks, storeTaskMap, storeCandidateTaskMap, totalCandidateStoreNum,
                   totalCandidateCopTaskNum, avgStorePerTask, store, possibleTaskNum>>
    /\ UNCHANGED <<sndVars, planVars, itVars>>

(***************************************************************************)
(* batchCopIterator: run, handleTask, handleTaskOnce,                      *)
(* handleStreamedBatchCopResponse, sendToRespCh, Next, Close.              *)
(***************************************************************************)
\* the tasks of the largest iterator, one worker each
Workers == 1..2

NumTasks == Cardinality(Workers)

\* the Close calls, concurrent or one after the other
Closers == 1..2

NumClosers == Cardinality(Closers)

\* a batchCopResponse: sub-response seq of the stream of task number task of worker w,
\* or an error result (err # "nil")
Resp(w, task, seq) == [w |-> w, task |-> task, seq |-> seq, err |-> "nil"]

ErrResp(w, task, err) == [w |-> w, task |-> task, seq |-> 0, err |-> err]

NoResp == [w |-> 0, task |-> 0, seq |-> 0, err |-> "nil"]

\* a task of b.tasks: two regions, the key ranges 1 and 2 in the first and 3 in
\* the second
PlannedTask == <<<<1, 2>>, <<3>>>>

\* the iterator sendBatch returns: go it.run(ctx) is started, nothing else has run
ItStart ==
    /\ closed = 0
    /\ finishCh = "open"
    /\ finishCloses = 0
    /\ respChan = <<>>
    /\ respChanClosed = FALSE
    /\ panics = {}
    /\ wg = 0
    /\ ctxDone = FALSE
    /\ killed = FALSE
    /\ rpcLive = {}
    /\ rpcCancelled = {}
    /\ runIdx = 1
    /\ wPc = [w \in Workers |-> "idle"]
    /\ wLen = [w \in Workers |-> 1]
    /\ wIdx = [w \in Workers |-> 1]
    /\ wSeq = [w \in Workers |-> 0]
    /\ wStream = [w \in Workers |-> "none"]
    /\ wOut = [w \in Workers |-> NoResp]
    /\ wErr = [w \in Workers |-> "nil"]
    /\ wBo = [w \in Workers |-> 0]
    /\ wBackoffs = [w \in Workers |-> <<>>]
    /\ wSent = [w \in Workers |-> <<>>]
    /\ wExit = [w \in Workers |-> FALSE]
    /\ nextRet = "none"
    /\ nAfterCancel = FALSE
    /\ enqueued = <<>>
    /\ delivered = <<>>
    /\ wTasks = [w \in Workers |-> <<PlannedTask>>]
    /\ wPlanned = [w \in Workers |-> <<>>]

Conf(tasks, closers, cancel, kill, stream, budget) ==
    [tasks |-> tasks, closers |-> closers, cancel |-> cancel, kill |-> kill,
     stream |-> stream, budget |-> budget, log |-> FALSE, fanout |-> MaxNewTasks]

\* the same, with the histories of the results kept
Logged(c) == [c EXCEPT !.log = TRUE]

\* the same, with re-plans that may return one more task
Fanned(c) == [c EXCEPT !.fanout = @ + 1]

\* many goroutines, short streams, no backoff left
ConfWide == Conf(NumTasks, NumClosers, TRUE, FALSE, 1, 0)

\* one task, long streams, retries
ConfDeep == Conf(1, 1, TRUE, TRUE, MaxStream, MaxBackoff)

\* a Close call, no cancellation
ConfClose == Conf(NumTasks, 1, FALSE, FALSE, 1, 0)

\* a cancellation, no Close call
ConfCancel == Conf(NumTasks, 0, TRUE, FALSE, 1, 0)

\* concurrent Close calls and a cancellation
ConfClosers == Conf(1, NumClosers, TRUE, FALSE, 1, 0)

\* a killed query and a retry
ConfKill == Conf(1, 0, FALSE, TRUE, 1, MaxBackoff)

\* a caller that only calls Next: no cancellation, no Close, no kill
ConfQuiet == Logged(Conf(NumTasks, 0, FALSE, FALSE, MaxStream, 0))

\* the same caller, one task and retries
ConfRetry == Fanned(Logged(Conf(1, 0, FALSE, FALSE, 1, MaxBackoff)))

InitIt(c) ==
    /\ conf = c
    /\ ItStart
    /\ runPc = "spawn"
    /\ nPc = "idle"
    /\ cPc = [i \in Closers |-> IF i <= c.closers THEN "idle" ELSE "off"]

\* no iterator exists
ItIdle ==
    /\ conf = Conf(0, 0, FALSE, FALSE, 0, 0)
    /\ ItStart
    /\ runPc = "idle"
    /\ nPc = "off"
    /\ cPc = [c \in Closers |-> "off"]

\* a close that leaves the channel open
CloseFinishChNot == UNCHANGED <<finishCh, finishCloses, panics>>

\* close(b.finishCh), lines 402 and 413: closing a closed channel panics
CloseFinishCh ==
    /\ finishCh' = "closed"
    /\ finishCloses' = finishCloses + 1
    /\ panics' = IF finishCh = "closed"
                 THEN panics \cup {"close of closed finishCh"}
                 ELSE panics

(***************************************************************************)
(* The caller's context and the killed flag.                               *)
(***************************************************************************)
CancelCtx ==
    /\ conf.cancel
    /\ ~ctxDone
    /\ ctxDone' = TRUE
    /\ UNCHANGED <<sndVars, balVars, planVars, logVars, taskVars, conf, chanVars, killed, rpcVars, runVars, workerVars,
                   nextVars, cPc>>

SetKilled ==
    /\ conf.kill
    /\ ~killed
    /\ killed' = TRUE
    /\ UNCHANGED <<sndVars, balVars, planVars, logVars, taskVars, conf, chanVars, ctxDone, rpcVars, runVars, workerVars,
                   nextVars, cPc>>

(***************************************************************************)
(* run, lines 346-355.                                                     *)
(***************************************************************************)
\* lines 348-352: b.wg.Add(1) and go b.handleTask for the next task
RunSpawn ==
    /\ runPc = "spawn"
    /\ runIdx <= conf.tasks
    /\ wg' = wg + 1
    /\ wPc' = [wPc EXCEPT ![runIdx] = "loop"]
    /\ runIdx' = runIdx + 1
    /\ UNCHANGED <<sndVars, balVars, planVars, logVars, taskVars, conf, chanVars, envVars, rpcVars, runPc, wLen, wIdx, wSeq,
                   wStream, wOut, wErr, wBo, wBackoffs, wSent, wExit, nextVars, cPc>>

\* the range loop of line 348 is over
RunSpawned ==
    /\ runPc = "spawn"
    /\ runIdx > conf.tasks
    /\ runPc' = "wait"
    /\ UNCHANGED <<sndVars, balVars, planVars, logVars, taskVars, conf, chanVars, envVars, rpcVars, wg, runIdx, workerVars,
                   nextVars, cPc>>

\* a Wait that does not wait
WaitReturnsAtOnce == TRUE

\* b.wg.Wait() returns when the counter is zero
WaitReturns == wg = 0

\* line 353
RunWait ==
    /\ runPc = "wait"
    /\ WaitReturns
    /\ runPc' = "close"
    /\ UNCHANGED <<sndVars, balVars, planVars, logVars, taskVars, conf, chanVars, envVars, rpcVars, wg, runIdx, workerVars,
                   nextVars, cPc>>

\* line 354: close(b.respChan)
RunCloseRespChan ==
    /\ runPc = "close"
    /\ respChanClosed' = TRUE
    /\ panics' = IF respChanClosed THEN panics \cup {"close of closed respChan"} ELSE panics
    /\ runPc' = "done"
    /\ UNCHANGED <<sndVars, balVars, planVars, logVars, taskVars, conf, closed, finishCh, finishCloses, respChan, envVars,
                   rpcVars, wg, runIdx, workerVars, nextVars, cPc>>

(***************************************************************************)
(* handleTask, lines 420-432, one per task of b.tasks.                     *)
(***************************************************************************)
\* a finish signal nobody observes
FinishFiredNever == FALSE

\* <-b.finishCh is ready
FinishFired == finishCh = "closed"

\* the RPC of worker w is cancelled, by the caller's context or by CancelAll: its
\* stream gives no further sub-response, the next receive fails
Cancelled(w) == ctxDone \/ w \in rpcCancelled

\* bo.Backoff may sleep one more cycle; it fails once the budget is used up
CanBackoff(w) == wBo[w] < conf.budget

\* handleTaskOnce returns err: lines 424-427 build the error result and hand it to
\* sendToRespCh; the deferred cancel() of line 486 has run
Fatal(w, err) ==
    /\ wErr' = [wErr EXCEPT ![w] = err]
    /\ wOut' = [wOut EXCEPT ![w] = ErrResp(w, wIdx[w], err)]
    /\ wPc' = [wPc EXCEPT ![w] = "enq"]
    /\ rpcLive' = rpcLive \ {w}
    /\ UNCHANGED <<wLen, wIdx, rpcCancelled>>

\* handleTaskOnce returns (nil, nil): line 429 appends nothing, idx++
TaskDone(w) ==
    /\ wIdx' = [wIdx EXCEPT ![w] = @ + 1]
    /\ wPc' = [wPc EXCEPT ![w] = "loop"]
    /\ rpcLive' = rpcLive \ {w}
    /\ UNCHANGED <<wLen, wOut, wErr, rpcCancelled>>

\* a consumer that keeps the first sub-response in resp and forwards it again
ForwardFirst(w, seq, kind) ==
    IF kind = "other"
    THEN Fatal(w, "otherErr")
    ELSE /\ wOut' = [wOut EXCEPT ![w] = Resp(w, wIdx[w], 1)]
         /\ wPc' = [wPc EXCEPT ![w] = "enq"]
         /\ UNCHANGED <<wLen, wIdx, wErr, rpcLive, rpcCancelled>>

\* handleBatchCopResponse, lines 523-552, on sub-response number seq of the stream
Forward(w, seq, kind) ==
    IF kind = "other"
    THEN Fatal(w, "otherErr")
    ELSE /\ wOut' = [wOut EXCEPT ![w] = Resp(w, wIdx[w], seq)]
         /\ wPc' = [wPc EXCEPT ![w] = "enq"]
         /\ UNCHANGED <<wLen, wIdx, wErr, rpcLive, rpcCancelled>>

\* line 422: the loop condition; line 423 enters handleTaskOnce
WLoop(w) ==
    /\ wPc[w] = "loop"
    /\ IF wIdx[w] <= wLen[w]
       THEN /\ wPc' = [wPc EXCEPT ![w] = "send"]
            /\ wSeq' = [wSeq EXCEPT ![w] = 0]
            /\ wStream' = [wStream EXCEPT ![w] = "none"]
            /\ wSent' = [wSent EXCEPT ![w] = <<>>]
            /\ wExit' = [wExit EXCEPT ![w] = FALSE]
            /\ wBackoffs' = [wBackoffs EXCEPT ![w] = <<>>]
       ELSE /\ wPc' = [wPc EXCEPT ![w] = "exit"]
            /\ UNCHANGED <<wSeq, wStream, wSent, wExit, wBackoffs>>
    /\ UNCHANGED <<sndVars, balVars, planVars, logVars, taskVars, conf, chanVars, envVars, rpcVars, runVars, wLen, wIdx, wOut,
                   wErr, wBo, nextVars, cPc>>

\* a sender that reports retry after a transient failure without a backoff
SendFailsFreeRetry(w, cause, shuttingDown, boOk) ==
    IF cause = "cancelled"
    THEN Fatal(w, "sendCancelled") /\ UNCHANGED <<wBo, wBackoffs>>
    ELSE IF shuttingDown
         THEN Fatal(w, "shuttingDown") /\ UNCHANGED <<wBo, wBackoffs>>
         ELSE /\ wPc' = [wPc EXCEPT ![w] = "replan"]
              /\ UNCHANGED <<wLen, wIdx, wOut, wErr, rpcVars, wBo, wBackoffs>>

\* SendReqToAddr fails, batch_request_sender.go lines 63-71 and 76-88
SendFails(w, cause, shuttingDown, boOk) ==
    IF cause = "cancelled"
    THEN Fatal(w, "sendCancelled") /\ UNCHANGED <<wBo, wBackoffs>>
    ELSE IF shuttingDown
         THEN Fatal(w, "shuttingDown") /\ UNCHANGED <<wBo, wBackoffs>>
         ELSE IF boOk
              THEN /\ wBo' = [wBo EXCEPT ![w] = @ + 1]
                   /\ wBackoffs' = [wBackoffs EXCEPT ![w] = Append(@, <<"BoTiFlashRPC", TRUE>>)]
                   /\ wPc' = [wPc EXCEPT ![w] = "replan"]
                   /\ UNCHANGED <<wLen, wIdx, wOut, wErr, rpcVars>>
              ELSE /\ Fatal(w, "backoffErr")
                   /\ wBackoffs' = [wBackoffs EXCEPT ![w] = Append(@, <<"BoTiFlashRPC", FALSE>>)]
                   /\ UNCHANGED wBo

\* line 478: SendReqToAddr; with a response, line 487 enters
\* handleStreamedBatchCopResponse: lines 492-496 for an empty stream, line 498 otherwise
WSend(w) ==
    /\ wPc[w] = "send"
    /\ \/ \E cause \in {"cancelled", "transient"}, shuttingDown \in BOOLEAN,
             boOk \in {b \in BOOLEAN : b => CanBackoff(w)} :
             /\ SendFails(w, cause, shuttingDown, boOk)
             /\ UNCHANGED <<wSeq, wStream>>
       \/ /\ ~ctxDone
          /\ TaskDone(w)
          /\ wStream' = [wStream EXCEPT ![w] = "eof"]
          /\ UNCHANGED <<wSeq, wBo, wBackoffs>>
       \/ /\ ~ctxDone
          /\ \E kind \in {"ok", "other"} :
                /\ wSeq' = [wSeq EXCEPT ![w] = 1]
                /\ wStream' = [wStream EXCEPT ![w] = "resp"]
                /\ IF kind = "other"
                   THEN Fatal(w, "otherErr")
                   ELSE /\ wOut' = [wOut EXCEPT ![w] = Resp(w, wIdx[w], 1)]
                        /\ wPc' = [wPc EXCEPT ![w] = "enq"]
                        /\ rpcLive' = rpcLive \cup {w}
                        /\ rpcCancelled' = rpcCancelled \ {w}
                        /\ UNCHANGED <<wLen, wIdx, wErr>>
          /\ UNCHANGED <<wBo, wBackoffs>>
    /\ UNCHANGED <<sndVars, balVars, planVars, logVars, taskVars, conf, chanVars, envVars, runVars, wSent, wExit, nextVars, cPc>>

\* a retry that asks for the ranges of the first region only
RetryRangesFirst(task) == task[1]

\* lines 435-440: the ranges of all regionInfos of the task, in order
RetryRanges(task) == Flatten(task)

\* the tasks buildBatchCopTasks returns for these ranges when it returns k tasks:
\* one region each, one range in each but the last
Replanned(ranges, k) ==
    [j \in 1..k |-> <<IF j < k THEN <<ranges[j]>> ELSE SubSeq(ranges, k, Len(ranges))>>]

\* line 481: retryBatchCopTask; line 429 appends the new tasks
WReplan(w) ==
    /\ wPc[w] = "replan"
    /\ wPlanned' = [wPlanned EXCEPT ![w] = RetryRanges(wTasks[w][wIdx[w]])]
    /\ \/ Fatal(w, "planErr") /\ UNCHANGED wTasks
       \/ \E k \in 1..Min({conf.fanout, Len(wPlanned'[w])}) :
             /\ wTasks' = [wTasks EXCEPT ![w] = @ \o Replanned(wPlanned'[w], k)]
             /\ wLen' = [wLen EXCEPT ![w] = @ + k]
             /\ wIdx' = [wIdx EXCEPT ![w] = @ + 1]
             /\ wPc' = [wPc EXCEPT ![w] = "loop"]
             /\ UNCHANGED <<wOut, wErr, rpcVars>>
    /\ UNCHANGED <<sndVars, balVars, planVars, logVars, conf, chanVars, envVars, runVars, wSeq, wStream, wBo, wBackoffs, wSent,
                   wExit, nextVars, cPc>>

\* a loop without the break of line 427
AfterSendNoBreak(w) == IF wOut[w].err # "nil" THEN "loop" ELSE "recv"

\* where the worker goes when sendToRespCh returns: an error result ends the loop
\* (line 427), a sub-response is followed by response.Recv() (line 502)
AfterSend(w) == IF wOut[w].err # "nil" THEN "exit" ELSE "recv"

\* line 556: b.respChan <- resp
WEnqueuePut(w) ==
    /\ wPc[w] = "enq"
    /\ Len(respChan) < RespChanCap \/ respChanClosed
    /\ IF respChanClosed
       THEN /\ panics' = panics \cup {"send on closed respChan"}
            /\ UNCHANGED <<respChan, wSent, enqueued>>
       ELSE /\ respChan' = Append(respChan, wOut[w])
            /\ wSent' = [wSent EXCEPT ![w] = Append(@, wOut[w])]
            /\ enqueued' = IF conf.log THEN Append(enqueued, wOut[w]) ELSE enqueued
            /\ UNCHANGED panics
    /\ wPc' = [wPc EXCEPT ![w] = AfterSend(w)]
    /\ UNCHANGED <<sndVars, balVars, planVars, delivered, taskVars, conf, closed, finishCh, finishCloses, respChanClosed, envVars,
                   rpcVars, runVars, wLen, wIdx, wSeq, wStream, wOut, wErr, wBo, wBackoffs, wExit,
                   nextVars, cPc>>

\* lines 557-558: <-b.finishCh, exit = true; no caller looks at exit
WEnqueueFinish(w) ==
    /\ wPc[w] = "enq"
    /\ FinishFired
    /\ wExit' = [wExit EXCEPT ![w] = TRUE]
    /\ wPc' = [wPc EXCEPT ![w] = AfterSend(w)]
    /\ UNCHANGED <<sndVars, balVars, planVars, logVars, taskVars, conf, chanVars, envVars, rpcVars, runVars, wLen, wIdx, wSeq,
                   wStream, wOut, wErr, wBo, wBackoffs, wSent, nextVars, cPc>>

\* a receive error treated as the end of the stream
OnRecvErrorAsEOF(w, boOk) ==
    /\ TaskDone(w)
    /\ UNCHANGED <<wBo, wBackoffs>>

\* a consumer that calls Recv again after a backoff that succeeded
OnRecvErrorRetryInPlace(w, boOk) ==
    /\ wBo' = [wBo EXCEPT ![w] = IF boOk THEN @ + 1 ELSE @]
    /\ wBackoffs' = [wBackoffs EXCEPT ![w] = Append(@, <<"BoTiKVRPC", boOk>>)]
    /\ IF boOk
       THEN UNCHANGED <<wPc, wLen, wIdx, wOut, wErr, rpcVars>>
       ELSE Fatal(w, "recvErr")

\* lines 508-517: one BoTiKVRPC backoff, then the error is returned
OnRecvError(w, boOk) ==
    /\ wBo' = [wBo EXCEPT ![w] = IF boOk THEN @ + 1 ELSE @]
    /\ wBackoffs' = [wBackoffs EXCEPT ![w] = Append(@, <<"BoTiKVRPC", boOk>>)]
    /\ Fatal(w, IF boOk THEN "serverTimeout" ELSE "recvErr")

\* line 502: response.Recv()
WRecv(w) ==
    /\ wPc[w] = "recv"
    /\ \/ /\ ~Cancelled(w)
          /\ wSeq[w] < conf.stream
          /\ \E kind \in {"ok", "other"} : Forward(w, wSeq[w] + 1, kind)
          /\ wSeq' = [wSeq EXCEPT ![w] = @ + 1]
          /\ wStream' = [wStream EXCEPT ![w] = "resp"]
          /\ UNCHANGED <<wBo, wBackoffs>>
       \/ /\ ~Cancelled(w)
          /\ TaskDone(w)
          /\ wStream' = [wStream EXCEPT ![w] = "eof"]
          /\ UNCHANGED <<wSeq, wBo, wBackoffs>>
       \/ /\ \E boOk \in {b \in BOOLEAN : b => CanBackoff(w)} : OnRecvError(w, boOk)
          /\ wStream' = [wStream EXCEPT ![w] = "err"]
          /\ UNCHANGED wSeq
    /\ UNCHANGED <<sndVars, balVars, planVars, logVars, taskVars, conf, chanVars, envVars, runVars, wSent, wExit, nextVars, cPc>>

\* line 431: b.wg.Done(); the goroutine ends and its locals with it
WDone(w) ==
    /\ wPc[w] = "exit"
    /\ wg' = wg - 1
    /\ wPc' = [wPc EXCEPT ![w] = "done"]
    /\ wLen' = [wLen EXCEPT ![w] = 1]
    /\ wIdx' = [wIdx EXCEPT ![w] = 1]
    /\ wSeq' = [wSeq EXCEPT ![w] = 0]
    /\ wStream' = [wStream EXCEPT ![w] = "none"]
    /\ wOut' = [wOut EXCEPT ![w] = NoResp]
    /\ wErr' = [wErr EXCEPT ![w] = "nil"]
    /\ wBo' = [wBo EXCEPT ![w] = 0]
    /\ wBackoffs' = [wBackoffs EXCEPT ![w] = <<>>]
    /\ wSent' = [wSent EXCEPT ![w] = <<>>]
    /\ wTasks' = [wTasks EXCEPT ![w] = <<PlannedTask>>]
    /\ wPlanned' = [wPlanned EXCEPT ![w] = <<>>]
    /\ UNCHANGED <<sndVars, balVars, planVars, logVars, conf, chanVars, envVars, rpcVars, runPc, runIdx, wExit,
                   nextVars, cPc>>

Worker(w) ==
    \/ WLoop(w)
    \/ WSend(w)
    \/ WReplan(w)
    \/ WEnqueuePut(w)
    \/ WEnqueueFinish(w)
    \/ WRecv(w)
    \/ WDone(w)

(***************************************************************************)
(* Next and recvFromRespCh, lines 359-408. One caller, one call at a time. *)
(***************************************************************************)
\* a compare-and-swap that always swaps
CASClosedAlways == TRUE

\* atomic.CompareAndSwapUint32(&b.closed, 0, 1) swaps
CASClosed == closed = 0

NextCall ==
    /\ nPc = "idle"
    /\ nPc' = "select"
    /\ nextRet' = "none"
    /\ nAfterCancel' = ctxDone
    /\ UNCHANGED <<sndVars, balVars, planVars, logVars, taskVars, conf, chanVars, envVars, rpcVars, runVars, workerVars, cPc>>

\* line 388 with a result in the queue; lines 369-379
NextRecv ==
    /\ nPc = "select"
    /\ respChan # <<>>
    /\ respChan' = Tail(respChan)
    /\ \E visible \in BOOLEAN :
          nextRet' = IF Head(respChan).err # "nil" \/ ~visible THEN "error" ELSE "result"
    /\ delivered' = IF conf.log THEN Append(delivered, Head(respChan)) ELSE delivered
    /\ nPc' = "idle"
    /\ UNCHANGED <<sndVars, balVars, planVars, enqueued, taskVars, conf, closed, finishCh, finishCloses, respChanClosed, panics,
                   envVars, rpcVars, runVars, workerVars, nAfterCancel, cPc>>

\* a closed channel that forgets what it buffers
DrainedAlways == TRUE

\* a receive from a closed channel gives ok = false once the buffer is empty
Drained == respChan = <<>>

\* line 388 on the closed, drained queue: ok = false, lines 365-367
NextRespChanClosed ==
    /\ nPc = "select"
    /\ Drained
    /\ respChanClosed
    /\ nextRet' = "eos"
    /\ nPc' = "idle"
    /\ UNCHANGED <<sndVars, balVars, planVars, logVars, taskVars, conf, chanVars, envVars, rpcVars, runVars, workerVars,
                   nAfterCancel, cPc>>

\* lines 390-395: a tick with the killed flag set
NextTickKilled ==
    /\ nPc = "select"
    /\ killed
    /\ nextRet' = "error"
    /\ nPc' = "idle"
    /\ UNCHANGED <<sndVars, balVars, planVars, logVars, taskVars, conf, chanVars, envVars, rpcVars, runVars, workerVars,
                   nAfterCancel, cPc>>

\* lines 396-398
NextFinish ==
    /\ nPc = "select"
    /\ FinishFired
    /\ nextRet' = "eos"
    /\ nPc' = "idle"
    /\ UNCHANGED <<sndVars, balVars, planVars, logVars, taskVars, conf, chanVars, envVars, rpcVars, runVars, workerVars,
                   nAfterCancel, cPc>>

\* lines 399-405: <-ctx.Done() and the compare-and-swap of line 401
NextCtxDone ==
    /\ nPc = "select"
    /\ ctxDone
    /\ IF CASClosed
       THEN /\ closed' = 1
            /\ nPc' = "closeFinish"
            /\ UNCHANGED nextRet
       ELSE /\ nextRet' = "eos"
            /\ nPc' = "idle"
            /\ UNCHANGED closed
    /\ UNCHANGED <<sndVars, balVars, planVars, logVars, taskVars, conf, finishCh, finishCloses, respChan, respChanClosed,
                   panics, envVars, rpcVars, runVars, workerVars, nAfterCancel, cPc>>

\* line 402, then exit = true
NextCloseFinish ==
    /\ nPc = "closeFinish"
    /\ CloseFinishCh
    /\ nextRet' = "eos"
    /\ nPc' = "idle"
    /\ UNCHANGED <<sndVars, balVars, planVars, logVars, taskVars, conf, closed, respChan, respChanClosed, envVars, rpcVars,
                   runVars, workerVars, nAfterCancel, cPc>>

(***************************************************************************)
(* Close, lines 411-418, called by each closer once.                       *)
(***************************************************************************)
\* line 412
CloseCAS(c) ==
    /\ cPc[c] = "idle"
    /\ IF CASClosed
       THEN /\ closed' = 1
            /\ cPc' = [cPc EXCEPT ![c] = "closeFinish"]
       ELSE /\ cPc' = [cPc EXCEPT ![c] = "cancel"]
            /\ UNCHANGED closed
    /\ UNCHANGED <<sndVars, balVars, planVars, logVars, taskVars, conf, finishCh, finishCloses, respChan, respChanClosed,
                   panics, envVars, rpcVars, runVars, workerVars, nextVars>>

\* line 413
CloseFinish(c) ==
    /\ cPc[c] = "closeFinish"
    /\ CloseFinishCh
    /\ cPc' = [cPc EXCEPT ![c] = "cancel"]
    /\ UNCHANGED <<sndVars, balVars, planVars, logVars, taskVars, conf, closed, respChan, respChanClosed, envVars, rpcVars,
                   runVars, workerVars, nextVars>>

\* line 415: b.rpcCancel.CancelAll() cancels the registered RPCs
CloseCancelAll(c) ==
    /\ cPc[c] = "cancel"
    /\ rpcCancelled' = rpcCancelled \cup rpcLive
    /\ cPc' = [cPc EXCEPT ![c] = "wait"]
    /\ UNCHANGED <<sndVars, balVars, planVars, logVars, taskVars, conf, chanVars, envVars, rpcLive, runVars, workerVars,
                   nextVars>>

\* lines 416-417: b.wg.Wait(), return nil
CloseWait(c) ==
    /\ cPc[c] = "wait"
    /\ WaitReturns
    /\ cPc' = [cPc EXCEPT ![c] = "returned"]
    /\ UNCHANGED <<sndVars, balVars, planVars, logVars, taskVars, conf, chanVars, envVars, rpcVars, runVars, workerVars,
                   nextVars>>

\* the steps of a Close call after its first
CloseRuns(c) ==
    \/ CloseFinish(c)
    \/ CloseCancelAll(c)
    \/ CloseWait(c)

Run ==
    \/ RunSpawn
    \/ RunSpawned
    \/ RunWait
    \/ RunCloseRespChan

(***************************************************************************)
(* buildBatchCopTasks, lines 219-293.                                      *)
(***************************************************************************)
\* what cache.GetTiFlashRPCContext and GetAllValidTiFlashStores give for a region:
\* a cache error, no RPCContext, or the AllStores of the region, the store of the
\* RPCContext first
Lookups == {<<"err">>, <<"nil">>} \cup {<<"ctx", as>> : as \in UNION {AllStoresOf(s) : s \in PlanStores}}

\* a planner that puts every region into the first task
PlanPutFirst(m, region, as) ==
    IF m = <<>>
    THEN <<batchCopTask(AddrOf(as[1]), CmdBatchCop, RPCContextOf(as[1]), <<RegionInfo(region, as)>>)>>
    ELSE [m EXCEPT ![1].regionInfos = Append(@, RegionInfo(region, as))]

\* lines 255-266: the region joins the task of its store address
PlanPut(m, region, as) ==
    IF \E i \in DOMAIN m : m[i].storeAddr = AddrOf(as[1])
    THEN [i \in DOMAIN m |->
            IF m[i].storeAddr = AddrOf(as[1])
            THEN [m[i] EXCEPT !.regionInfos = Append(@, RegionInfo(region, as))]
            ELSE m[i]]
    ELSE Append(m, batchCopTask(AddrOf(as[1]), CmdBatchCop, RPCContextOf(as[1]),
                                <<RegionInfo(region, as)>>))

PlanUnset ==
    /\ planIdx = 1
    /\ planMap = <<>>
    /\ needRetry = FALSE
    /\ planBo = 0
    /\ planBoPass = 0
    /\ planPass = 0
    /\ planRet = <<>>

PlanIdle == planPc = "idle" /\ PlanUnset

\* lines 223-237: a pass begins with SplitKeyRanges
PlanSplit ==
    /\ planPc = "split"
    /\ planPass' = planPass + 1
    /\ planIdx' = 1
    /\ planMap' = <<>>
    /\ needRetry' = FALSE
    /\ planBoPass' = 0
    /\ \E ok \in BOOLEAN : planPc' = IF ok THEN "lookup" ELSE "cacheError"
    /\ UNCHANGED <<sndVars, balVars, itVars, planBo, planRet>>

\* lines 243-267: the body of the loop for one region
PlanLookup ==
    /\ planPc = "lookup"
    /\ planIdx <= NumRegions
    /\ \E l \in Lookups :
          /\ planPc' = IF l[1] = "err" THEN "cacheError" ELSE "lookup"
          /\ needRetry' = (needRetry \/ l[1] = "nil")
          /\ planMap' = IF l[1] = "ctx" THEN PlanPut(planMap, planIdx, l[2]) ELSE planMap
          /\ planIdx' = IF l[1] = "err" THEN planIdx ELSE planIdx + 1
    /\ UNCHANGED <<sndVars, balVars, itVars, planBo, planBoPass, planPass, planRet>>

\* lines 268-275: one Backoff(BoRegionMiss), which fails when the budget is used up
PlanBackoff ==
    /\ planPc = "lookup"
    /\ planIdx > NumRegions
    /\ needRetry
    /\ planBoPass' = planBoPass + 1
    /\ \E ok \in {b \in BOOLEAN : b => planBo < MaxBackoff} :
          /\ planBo' = IF ok THEN planBo + 1 ELSE planBo
          /\ planPc' = IF ok THEN "split" ELSE "backoffError"
    /\ UNCHANGED <<sndVars, balVars, itVars, planIdx, planMap, needRetry, planPass, planRet>>

\* lines 277-280: the tasks of storeTaskMap, in the order the map yields them, go to
\* balanceBatchCopTask
PlanBalance ==
    /\ planPc = "lookup"
    /\ planIdx > NumRegions
    /\ ~needRetry
    /\ \E order \in Orders(DOMAIN planMap) :
          originalTasks' = [i \in DOMAIN order |-> planMap[order[i]]]
    /\ balPc' = "call"
    /\ planPc' = "balance"
    /\ UNCHANGED <<storeTaskMap, storeCandidateTaskMap, totalCandidateStoreNum,
                   totalCandidateCopTaskNum, avgStorePerTask, store, possibleTaskNum, balRet,
                   sndVars, itVars, planIdx, planMap, needRetry, planBo, planBoPass, planPass,
                   planRet>>

\* line 289
PlanReturn ==
    /\ planPc = "balance"
    /\ balPc = "returned"
    /\ planRet' = balRet
    /\ planPc' = "returned"
    /\ UNCHANGED <<sndVars, balVars, itVars, planIdx, planMap, needRetry, planBo, planBoPass,
                   planPass>>

(***************************************************************************)
(* RegionBatchRequestSender: SendReqToAddr and onSendFailForBatchRegions,  *)
(* batch_request_sender.go lines 48-88.                                    *)
(***************************************************************************)
\* an error value: its root cause and whether errors.Trace or a wrapper is around it
Err(cause, code, traced) == [root |-> [cause |-> cause, code |-> code], traced |-> traced]

\* the nil error; status.Code(nil) is codes.OK
NoErr == Err("nil", "OK", FALSE)

\* errors.Trace(e)
Trace(e) == IF e = NoErr THEN e ELSE [e EXCEPT !.traced = TRUE]

\* errors.Cause(e)
Cause(e) == e.root

\* status.Code(c): the code of a gRPC status error, codes.Unknown for any other error
StatusCode(c) == c.code

\* the errors client.SendRequest returns: context.Canceled, gRPC status errors
\* (Canceled, Unavailable), an error of the connection; bare or wrapped
SendErrors ==
    {Err(c[1], c[2], t) : c \in {<<"context.Canceled", "Unknown">>, <<"status", "Canceled">>,
                                 <<"status", "Unavailable">>, <<"conn", "Unknown">>},
                          t \in BOOLEAN}

ErrTiDBShuttingDown == Err("ErrTiDBShuttingDown", "Unknown", FALSE)

\* the error of tikvrpc.SetContext
SetContextErr == Err("SetContext", "Unknown", FALSE)

\* the error bo.Backoff returns when it gives up
BackoffErr == Err("backoff", "Unknown", TRUE)

\* a test on the error value itself, which misses a wrapped error
IsCancelledBare(e) ==
    \/ e = Err("context.Canceled", "Unknown", FALSE)
    \/ e = Err("status", "Canceled", FALSE)

\* line 78: errors.Cause(err) == context.Canceled ||
\*          status.Code(errors.Cause(err)) == codes.Canceled
IsCancelled(e) ==
    \/ Cause(e).cause = "context.Canceled"
    \/ StatusCode(Cause(e)) = "Canceled"

\* what SendReqToAddr returns
SendRet(resp, retry, cancel, err) ==
    [resp |-> resp, retry |-> retry, cancel |-> cancel, err |-> err]

NoRet == SendRet("nil", FALSE, "noop", NoErr)

\* nothing is left of an earlier call
SndFresh ==
    /\ sndRpcCtx = NilCtx
    /\ sndCancel = "noop"
    /\ sndRpcLive = FALSE
    /\ sndErr = NoErr
    /\ sndShutAtFail = FALSE
    /\ sndNotified = 0
    /\ sndBackoffs = <<>>
    /\ sndRet = NoRet

\* no sender exists
SndIdle ==
    /\ sndPc = "off"
    /\ sndCalls = 0
    /\ ShuttingDown = FALSE
    /\ sndBo = 0
    /\ SndFresh

\* a sender and a Backoffer, before the first call
SndStart ==
    /\ sndPc = "idle"
    /\ sndCalls = 0
    /\ ShuttingDown = FALSE
    /\ sndBo = 0
    /\ SndFresh

\* the return statements of lines 52, 68, 70 and 73
SendReturn(ret) ==
    /\ sndRet' = ret
    /\ sndPc' = "returned"

\* lines 50-57: cancel = func() {}, SetContext, RPCCanceller.WithCancel. rpcCtx.Meta
\* of a nil rpcCtx is a nil pointer dereference. SetContext fails on a request of a
\* type it does not know.
SendCall ==
    /\ sndPc \in {"idle", "returned"}
    /\ sndCalls < MaxCalls
    /\ sndCalls' = sndCalls + 1
    /\ sndErr' = NoErr
    /\ sndShutAtFail' = FALSE
    /\ sndNotified' = 0
    /\ sndBackoffs' = <<>>
    /\ \E rpcCtx \in {NilCtx, RPCContextOf(1)}, typeKnown \in BOOLEAN, rawHook \in BOOLEAN :
          /\ sndRpcCtx' = rpcCtx
          /\ IF rpcCtx = NilCtx
             THEN /\ sndPc' = "panic"
                  /\ sndRet' = NoRet
                  /\ sndCancel' = "noop"
                  /\ sndRpcLive' = FALSE
             ELSE IF ~typeKnown
                  THEN /\ SendReturn(SendRet("nil", FALSE, "noop", Trace(SetContextErr)))
                       /\ sndCancel' = "noop"
                       /\ sndRpcLive' = FALSE
                  ELSE /\ sndPc' = "dispatch"
                       /\ sndRet' = NoRet
                       /\ sndCancel' = IF rawHook THEN "rpc" ELSE "noop"
                       /\ sndRpcLive' = rawHook
    /\ UNCHANGED <<ShuttingDown, sndBo, balVars, planVars, itVars>>

\* lines 59-66 and 73: SendRequest returns; on an error cancel() runs
SendRequest ==
    /\ sndPc = "dispatch"
    /\ \/ /\ SendReturn(SendRet("stream", FALSE, sndCancel, NoErr))
          /\ UNCHANGED <<sndErr, sndRpcLive>>
       \/ \E e \in SendErrors :
             /\ sndErr' = e
             /\ sndRpcLive' = FALSE
             /\ sndPc' = "onfail"
             /\ UNCHANGED sndRet
    /\ UNCHANGED <<sndCalls, sndRpcCtx, sndCancel, ShuttingDown, sndShutAtFail, sndNotified,
                   sndBackoffs, sndBo, balVars, planVars, itVars>>

\* line 84: ss.GetRegionCache().OnSendFailForBatchRegions(...)
NotifySendFail == sndNotified' = sndNotified + 1

\* lines 67-69 and 78-84: onSendFailForBatchRegions up to the Backoff call
OnSendFail ==
    /\ sndPc = "onfail"
    /\ sndShutAtFail' = ShuttingDown
    /\ IF IsCancelled(sndErr)
       THEN /\ SendReturn(SendRet("nil", FALSE, "noop", Trace(Trace(sndErr))))
            /\ UNCHANGED sndNotified
       ELSE IF ShuttingDown
            THEN /\ SendReturn(SendRet("nil", FALSE, "noop", Trace(ErrTiDBShuttingDown)))
                 /\ UNCHANGED sndNotified
            ELSE /\ NotifySendFail
                 /\ sndPc' = "backoff"
                 /\ UNCHANGED sndRet
    /\ UNCHANGED <<sndCalls, sndRpcCtx, sndCancel, sndRpcLive, sndErr, ShuttingDown,
                   sndBackoffs, sndBo, balVars, planVars, itVars>>

\* bo.Backoff may sleep one more cycle; it fails once the budget is used up
SndCanBackoff == sndBo < MaxBackoff

\* a sender that takes every Backoff for a success
RetryAfterBackoffAlways(boOk) == SendRet("nil", TRUE, "noop", NoErr)

\* lines 67-71 and 87: e is the error of bo.Backoff; retry only when it is nil
RetryAfterBackoff(boOk) ==
    IF boOk
    THEN SendRet("nil", TRUE, "noop", NoErr)
    ELSE SendRet("nil", FALSE, "noop", Trace(Trace(BackoffErr)))

\* lines 86-87 and 67-71: bo.Backoff(BoTiFlashRPC, ...) returns
SendBackoff ==
    /\ sndPc = "backoff"
    /\ \E boOk \in {b \in BOOLEAN : b => SndCanBackoff} :
          /\ sndBackoffs' = Append(sndBackoffs, <<"BoTiFlashRPC", boOk>>)
          /\ sndBo' = IF boOk THEN sndBo + 1 ELSE sndBo
          /\ SendReturn(RetryAfterBackoff(boOk))
    /\ UNCHANGED <<sndCalls, sndRpcCtx, sndCancel, sndRpcLive, sndErr, ShuttingDown,
                   sndShutAtFail, sndNotified, balVars, planVars, itVars>>

\* the server begins to shut down: ShuttingDown is set and stays set
SetShuttingDown ==
    /\ sndPc # "off"
    /\ ~ShuttingDown
    /\ ShuttingDown' = TRUE
    /\ UNCHANGED <<sndPc, sndCalls, sndRpcCtx, sndCancel, sndRpcLive, sndErr, sndShutAtFail,
                   sndNotified, sndBackoffs, sndBo, sndRet, balVars, planVars, itVars>>

(***************************************************************************)
(* Specifications.                                                         *)
(***************************************************************************)
BalIdle ==
    /\ originalTasks = <<>>
    /\ balPc = "idle"
    /\ BalUnset

\* balanceBatchCopTask alone, on the drafts of the family
InitBal == SndIdle /\ BalCalled /\ PlanIdle /\ ItIdle

NextBal ==
    \/ BalBuild
    \/ BalNoCandidate
    \/ BalFirstStore
    \/ BalAssign
    \/ BalCollect

SpecBal == InitBal /\ [][NextBal]_vars

\* buildBatchCopTasks with the balancer it calls
InitPlan == SndIdle /\ BalIdle /\ planPc = "split" /\ PlanUnset /\ ItIdle

NextPlan ==
    \/ PlanSplit
    \/ PlanLookup
    \/ PlanBackoff
    \/ PlanBalance
    \/ PlanReturn
    \/ NextBal

SpecPlan == InitPlan /\ [][NextPlan]_vars

\* the iterator of sendBatch with its caller
Init == SndIdle /\ BalIdle /\ PlanIdle /\ \E c \in {ConfWide, ConfDeep} : InitIt(c)

Next ==
    \/ CancelCtx
    \/ SetKilled
    \/ Run
    \/ \E w \in Workers : Worker(w)
    \/ NextCall
    \/ NextRecv
    \/ NextRespChanClosed
    \/ NextTickKilled
    \/ NextFinish
    \/ NextCtxDone
    \/ NextCloseFinish
    \/ \E c \in Closers : CloseCAS(c) \/ CloseRuns(c)

Spec == Init /\ [][Next]_vars

\* every goroutine that can take a step eventually takes one; nobody has to call
\* Next or Close
Fairness ==
    /\ WF_vars(Run)
    /\ \A w \in Workers : WF_vars(Worker(w))
    /\ \A c \in Closers : WF_vars(CloseRuns(c))
    /\ WF_vars(NextCloseFinish)

InitFair ==
    SndIdle /\ BalIdle /\ PlanIdle /\ \E c \in {ConfClose, ConfCancel, ConfClosers, ConfKill} : InitIt(c)

FairSpec == InitFair /\ [][Next]_vars /\ Fairness

\* the iterator with the histories of its results; a caller that only calls Next,
\* and callers that cancel, close or kill
InitNext ==
    /\ SndIdle /\ BalIdle /\ PlanIdle
    /\ \E c \in {ConfQuiet, ConfRetry, Logged(ConfClosers), Logged(ConfKill)} : InitIt(c)

SpecNext == InitNext /\ [][Next]_vars

\* SendReqToAddr, called again and again on one Backoffer while the server may
\* begin to shut down
InitSend == SndStart /\ BalIdle /\ PlanIdle /\ ItIdle

NextSend ==
    \/ SendCall
    \/ SendRequest
    \/ OnSendFail
    \/ SendBackoff
    \/ SetShuttingDown

SpecSend == InitSend /\ [][NextSend]_vars

(***************************************************************************)
(* Properties of balanceBatchCopTask.                                      *)
(***************************************************************************)
\* the regions of a task list, with repetitions
AllRegions(tasks) == Flatten([i \in DOMAIN tasks |-> tasks[i].regionInfos])

SameMultiset(a, b) == \A x \in Range(a) \cup Range(b) : Count(x, a) = Count(x, b)

BalReturned == balPc = "returned"

\* the balancer went through the assignment loop and returned the tasks of storeTaskMap
BalRebalanced == BalReturned /\ totalCandidateStoreNum # 0 /\ storeTaskMap # EmptyMap

\* C1. Balancer conservation: the regions of the returned tasks are, as a multiset,
\* the regions of the input draft: none is dropped, none is duplicated.
C1_Conservation ==
    BalReturned => SameMultiset(AllRegions(balRet), AllRegions(originalTasks))

\* C2. Balancer pin invariant: every returned task starts with the first region of
\* the draft task of the same store, and the pinned region of every draft task is
\* the first region of the returned task of its store.
C2_PinInvariant ==
    BalReturned =>
        /\ \A i \in DOMAIN balRet :
              \E j \in DOMAIN originalTasks :
                  /\ originalTasks[j].storeAddr = balRet[i].storeAddr
                  /\ balRet[i].regionInfos[1] = originalTasks[j].regionInfos[1]
        /\ \A j \in DOMAIN originalTasks :
              \E i \in DOMAIN balRet :
                  /\ originalTasks[j].storeAddr = balRet[i].storeAddr
                  /\ balRet[i].regionInfos[1] = originalTasks[j].regionInfos[1]

\* C2 witness: a rebalanced result in which a task received a region that the draft
\* had given to another store.
C2_Witness ==
    /\ BalRebalanced
    /\ \E i \in DOMAIN balRet :
          \E k \in 2..Len(balRet[i].regionInfos) :
              AddrOf(balRet[i].regionInfos[k].AllStores[1]) # balRet[i].storeAddr

\* the positions <<task, index>> of the regions of a task list
Positions(tasks) == {<<t, k>> : t \in DOMAIN tasks, k \in 1..MaxCand + 1} \cap
                    UNION {{<<t, k>> : k \in DOMAIN tasks[t].regionInfos} : t \in DOMAIN tasks}

RegionAt(tasks, pos) == tasks[pos[1]].regionInfos[pos[2]]

\* two regions of the draft, at any positions, have the same region key
HasDuplicateKey(tasks) ==
    \E x, y \in Positions(tasks) :
        x # y /\ RegionAt(tasks, x).Region = RegionAt(tasks, y).Region

\* a region of the draft that the balancer treats as a candidate: not pinned, and
\* not with exactly one valid store
IsCandidateAt(tasks, pos) ==
    /\ pos[2] # 1
    /\ ValidStoreNum(RegionAt(tasks, pos), InitStoreTaskMap(tasks)) # 1

\* two candidate regions of the draft have the same region key and a store in common
HasDuplicateCandidate(tasks) ==
    \E x, y \in Positions(tasks) :
        /\ x # y
        /\ IsCandidateAt(tasks, x) /\ IsCandidateAt(tasks, y)
        /\ RegionAt(tasks, x).Region = RegionAt(tasks, y).Region
        /\ Range(RegionAt(tasks, x).AllStores) \cap Range(RegionAt(tasks, y).AllStores) # {}

\* C3 as stated. Duplicate-region bailout: when two regions of the draft, at any
\* positions, share a region key, the balancer returns the draft list itself.
C3_AnyDuplicateBailsOut ==
    (BalReturned /\ HasDuplicateKey(originalTasks)) => balRet = originalTasks

\* C3 amended. When two candidate regions (non-pinned, with more than one valid
\* store) share a region key and a store, the balancer gives up at once and returns
\* the draft list itself.
C3_DuplicateCandidateBailsOut ==
    (balPc # "call" /\ HasDuplicateCandidate(originalTasks)) =>
        (BalReturned /\ balRet = originalTasks /\ storeTaskMap = EmptyMap)

C3_Witness ==
    /\ BalReturned
    /\ HasDuplicateCandidate(originalTasks)
    /\ balRet = originalTasks

(***************************************************************************)
(* Properties of batchCopIterator.                                         *)
(***************************************************************************)
\* the workers run spawns
Spawned == 1..conf.tasks

AllWorkersDone == \A w \in Spawned : wPc[w] = "done"

\* C4. Single-shot finish signal: whatever the interleaving of Close calls and of Next
\* calls that see the cancelled context, close(b.finishCh) runs at most once, nothing
\* panics, and b.closed goes from 0 to 1 (before the close) and never back.
C4_SingleShotFinish ==
    /\ [](/\ finishCloses <= 1
          /\ panics = {}
          /\ closed \in {0, 1}
          /\ finishCh = "closed" => closed = 1)
    /\ [][closed = 1 => closed' = 1]_vars

\* two Close calls and a Next call that saw the cancelled context all went through
\* the compare-and-swap
C4_Witness ==
    /\ \A c \in Closers : cPc[c] \in {"cancel", "wait", "returned"}
    /\ nAfterCancel
    /\ nPc = "idle"
    /\ nextRet = "eos"
    /\ finishCloses = 1
    /\ closed = 1

\* C5. b.respChan is closed once, and only after every spawned worker has called
\* wg.Done(); no worker sends on the closed channel.
C5_RespChanClosedAfterWorkers ==
    /\ respChanClosed => AllWorkersDone /\ runPc = "done"
    /\ runPc = "done" => respChanClosed
    /\ "close of closed respChan" \notin panics
    /\ "send on closed respChan" \notin panics

\* run closed the queue of an iterator of NumTasks tasks with a result still in it
C5_Witness ==
    /\ respChanClosed
    /\ conf.tasks = NumTasks
    /\ respChan # <<>>

\* C6. When Close returns every worker of the iterator has run to completion: none
\* is running, none is started later.
C6_CloseWaitsForWorkers ==
    \A c \in Closers : cPc[c] = "returned" => AllWorkersDone

\* C7. Close liveness: a Close call that has begun returns, though workers are blocked
\* sending to a full b.respChan or receiving from a stream and nobody calls Next.
C7_CloseReturns ==
    \A c \in Closers : (cPc[c] \in {"closeFinish", "cancel", "wait"}) ~> (cPc[c] = "returned")

\* Close returned, the queue is still full and a worker had its send ended by the
\* finish signal
C7_Witness ==
    /\ \E c \in Closers : cPc[c] = "returned"
    /\ Len(respChan) = RespChanCap
    /\ AllWorkersDone
    /\ \E w \in Spawned : wExit[w]
    /\ ~ctxDone

\* C8, as stated: a Next call made after the caller cancelled the context returns no
\* further result.
C8_NoResultAfterCancel == ~(nAfterCancel /\ nPc = "idle" /\ nextRet = "result")

\* a Next call made after the cancellation has returned end-of-stream
EndOfStreamAfterCancel == nAfterCancel /\ nPc = "idle" /\ nextRet = "eos"

\* C8, amended: when a Next call made after the cancellation returns end-of-stream the
\* compare-and-swap of b.closed is won (or all workers are done already), and from then
\* on all workers terminate, none stays blocked sending to b.respChan.
C8_EndOfStreamThenWorkersDone ==
    /\ [](EndOfStreamAfterCancel => closed = 1 \/ respChanClosed)
    /\ EndOfStreamAfterCancel ~> AllWorkersDone

\* the cancellation alone, without any Close call, ended a blocked send and the workers
C8_Witness ==
    /\ EndOfStreamAfterCancel
    /\ AllWorkersDone
    /\ conf.tasks = NumTasks
    /\ \E w \in Spawned : wExit[w]
    /\ \A c \in Closers : cPc[c] \in {"idle", "off"}

\* the worker left the loop of handleTask after a receive error of its stream
StreamFailed(w) == wPc[w] = "exit" /\ wStream[w] = "err"

PassOver == planPass > 0 /\ planPc \in {"split", "backoffError", "balance", "returned"}

\* a pass with a region without RPCContext calls Backoff(BoRegionMiss) once, a pass
\* without such a region does not call it
OneBackoffPerMissedPass == PassOver => planBoPass = (IF needRetry THEN 1 ELSE 0)

\* the pass that resolves every region gives the plan: balanceBatchCopTask returns,
\* and what buildBatchCopTasks returns has the regions of the pass
PlanFromResolvedPass ==
    /\ planPc = "balance" => balPc \notin {"panic", "hang"}
    /\ planPc = "returned" => SameMultiset(AllRegions(planRet), AllRegions(originalTasks))

\* C10. Region-miss retry: every planning pass that looks up its regions and finds one
\* without RPCContext performs exactly one region-miss backoff, no other pass performs
\* one, and the pass in which every region has an RPCContext yields the plan that
\* buildBatchCopTasks returns.
C10_RegionMissRetry == OneBackoffPerMissedPass /\ PlanFromResolvedPass

(***************************************************************************)
(* The request sender.                                                     *)
(***************************************************************************)
\* the root cause of e is context cancellation or an RPC status of cancelled
RootCancelled(e) == e.root.cause = "context.Canceled" \/ e.root.code = "Canceled"

\* SendRequest of the call failed and SendReqToAddr has returned
SendFailedAndReturned == sndPc = "returned" /\ sndErr # NoErr

\* the call returned the error with root root: no response, retry = false, and the
\* cache and the Backoffer were left alone
FatalWith(root) ==
    /\ sndRet.resp = "nil"
    /\ ~sndRet.retry
    /\ Cause(sndRet.err) = root
    /\ sndNotified = 0
    /\ sndBackoffs = <<>>

\* C11. Sender fatal classification, in order: a send failure whose root cause is
\* context-cancelled or an RPC status of cancelled returns that error with retry =
\* false, no cache notification and no backoff, whatever the ShuttingDown flag; any
\* other send failure while ShuttingDown is set returns the shutting-down error with
\* retry = false, again with no cache notification and no backoff.
C11_FatalClassification ==
    SendFailedAndReturned =>
        /\ RootCancelled(sndErr) => FatalWith(sndErr.root)
        /\ ~RootCancelled(sndErr) /\ sndShutAtFail => FatalWith(ErrTiDBShuttingDown.root)

\* a wrapped cancellation was classified while the server was shutting down
C11_Witness ==
    /\ SendFailedAndReturned
    /\ RootCancelled(sndErr)
    /\ sndErr.traced
    /\ sndShutAtFail
    /\ sndRet.err.root = sndErr.root

\* the send failure of the call is neither cancelled nor during shutdown
TransientFailure == SendFailedAndReturned /\ ~RootCancelled(sndErr) /\ ~sndShutAtFail

\* the cache heard of the failure once, one BoTiFlashRPC backoff was applied
NotifiedOnceBackedOffOnce ==
    /\ sndNotified = 1
    /\ Len(sndBackoffs) = 1
    /\ sndBackoffs[1][1] = "BoTiFlashRPC"

\* C12 as stated: every transient send failure notifies the cache once, applies
\* one tiflash-rpc backoff and returns retry = true with no response and no error.
C12_TransientAlwaysRetries ==
    TransientFailure =>
        /\ NotifiedOnceBackedOffOnce
        /\ sndRet = SendRet("nil", TRUE, "noop", NoErr)

\* C12. A transient send failure notifies the cache exactly once and calls
\* Backoff(BoTiFlashRPC) exactly once; when that backoff succeeds the sender returns
\* retry = true with no response and no error, and when it fails the sender returns
\* the error of the backoff with retry = false and no response.
C12_TransientRetriesIfBackoffOk ==
    TransientFailure =>
        /\ NotifiedOnceBackedOffOnce
        /\ sndBackoffs[1][2] => sndRet = SendRet("nil", TRUE, "noop", NoErr)
        /\ ~sndBackoffs[1][2] =>
              /\ sndRet.resp = "nil"
              /\ ~sndRet.retry
              /\ Cause(sndRet.err) = Cause(BackoffErr)

\* a transient failure whose backoff failed although the cache was notified
C12_Witness ==
    /\ TransientFailure
    /\ sndNotified = 1
    /\ ~sndBackoffs[1][2]
    /\ ~sndRet.retry

(***************************************************************************)
(* Delivery.                                                               *)
(***************************************************************************)
\* so far the context is not cancelled, nobody has called Close, nobody has killed
\* the query
Quiet == ~ctxDone /\ ~killed /\ closed = 0

\* every result that entered the queue was taken by Next once, in queue order, or
\* is still in the queue
EachTakenOnce == enqueued = delivered \o respChan

\* the last Next call took a result from the queue and has returned
NextTook == nPc = "idle" /\ nextRet \in {"result", "error"} /\ delivered # <<>>

\* the result the last Next call took
LastTaken == delivered[Len(delivered)]

\* Next returned nil with no error
EndOfStream == nextRet = "eos"

EndOfStreamAfterWorkers == EndOfStream => AllWorkersDone /\ respChan = <<>>

FromStream(w, task) ==
    {i \in 1..Len(delivered) :
        delivered[i].w = w /\ delivered[i].task = task /\ delivered[i].err = "nil"}

RangesOf(task) == UNION {Range(task[r]) : r \in DOMAIN task}

\* worker w leaves retryBatchCopTask in this step
ReplanReturns(w) == wPc[w] = "replan" /\ wPc'[w] # "replan"

\* the planner was called on the union of the ranges of the retried task; the tasks
\* it returned are appended to the list of w and to no other list, and w goes on
\* with the next task of its list
ReplanStep(w) ==
    /\ Range(wPlanned'[w]) = RangesOf(wTasks[w][wIdx[w]])
    /\ \A v \in Workers \ {w} : wTasks'[v] = wTasks[v]
    /\ wPc'[w] = "loop" =>
          /\ Len(wTasks'[w]) > Len(wTasks[w])
          /\ SubSeq(wTasks'[w], 1, Len(wTasks[w])) = wTasks[w]
          /\ \A j \in (Len(wTasks[w]) + 1)..Len(wTasks'[w]) :
                RangesOf(wTasks'[w][j]) \subseteq Range(wPlanned'[w])
          /\ wLen'[w] = Len(wTasks'[w])
          /\ wIdx'[w] = wIdx[w] + 1

\* a worker that ends without an error has handled every task of its list, in order
HandlesWholeList(w) ==
    /\ wLen[w] = Len(wTasks[w])
    /\ wPc[w] = "exit" /\ wErr[w] = "nil" => wIdx[w] = wLen[w] + 1

\* C15. Worker re-plan on retry: when the sender reports retry = true the worker
\* enqueues no result for that attempt, calls the planner on the union of the ranges
\* of all regions of the task, appends the tasks it gets to its own list and handles
\* them itself in list order; the sub-responses of a re-dispatched attempt that
\* succeeds reach the caller.
C15_ReplanOnRetry ==
    /\ [](\A w \in Workers :
            /\ wPc[w] = "replan" => wSent[w] = <<>>
            /\ HandlesWholeList(w))
    /\ [](conf.log /\ Quiet /\ EndOfStream =>
            \A i \in 1..Len(enqueued) :
                enqueued[i].task > 1 => \E j \in 1..Len(delivered) : delivered[j] = enqueued[i])
    /\ [][\A w \in Workers :
            /\ ReplanReturns(w) => ReplanStep(w)
            /\ wIdx'[w] \in {wIdx[w], wIdx[w] + 1, 1}]_vars

\* the caller has got a sub-response of a task that a re-plan appended
C15_Witness ==
    /\ conf.log /\ Quiet /\ EndOfStream
    /\ \E i \in 1..Len(delivered) : delivered[i].task = 2 /\ delivered[i].err = "nil"

\* the positions of enqueued with an error result of worker w
ErrorResults(w) == {i \in 1..Len(enqueued) : enqueued[i].w = w /\ enqueued[i].err # "nil"}

\* worker w hits a fatal error in this step
HitsFatal(w) == wErr[w] = "nil" /\ wErr'[w] # "nil"

\* the step leaves the other workers, the queue and the finish signal as they are
SiblingsUntouched(w) ==
    /\ \A v \in Workers \ {w} :
          /\ wPc'[v] = wPc[v] /\ wIdx'[v] = wIdx[v] /\ wLen'[v] = wLen[v]
          /\ wSeq'[v] = wSeq[v] /\ wOut'[v] = wOut[v] /\ wErr'[v] = wErr[v]
          /\ wSent'[v] = wSent[v] /\ wTasks'[v] = wTasks[v]
          /\ (v \in rpcCancelled') = (v \in rpcCancelled)
    /\ UNCHANGED <<finishCh, closed, respChan, respChanClosed, wg>>

\* after a fatal error the worker only hands over its error result and ends
OnlyEnds(w) ==
    /\ wPc'[w] \in {"enq", "exit", "done"}
    /\ wPc'[w] # "done" => wIdx'[w] = wIdx[w] /\ wErr'[w] = wErr[w]

\* C16. A per-task fatal error is isolated: the worker enqueues at most one error
\* result, which is the last result it ever enqueues, handles none of its remaining
\* tasks, and does not stop its siblings: it does not fire the finish signal and the
\* siblings' results are all delivered.
C16_FatalErrorIsolated ==
    /\ [](conf.log =>
            \A w \in Workers :
                /\ Cardinality(ErrorResults(w)) <= 1
                /\ \A i \in ErrorResults(w), j \in 1..Len(enqueued) :
                      i < j => enqueued[j].w # w)
    /\ [](FinishFired => closed = 1)
    /\ [](conf.log /\ Quiet /\ EndOfStream => delivered = enqueued)
    /\ [][\A w \in Workers :
            /\ HitsFatal(w) => SiblingsUntouched(w)
            /\ wErr[w] # "nil" => OnlyEnds(w)]_vars

\* a worker's error result is followed by the whole stream of its sibling, and the
\* caller has got all of it
C16_Witness ==
    /\ conf.log /\ Quiet /\ EndOfStream
    /\ delivered = enqueued
    /\ \E i, j \in 1..Len(delivered) :
          /\ i < j
          /\ delivered[i].err # "nil"
          /\ delivered[j].w # delivered[i].w
          /\ delivered[j].err = "nil"
          /\ delivered[j].seq = conf.stream

(***************************************************************************)
(* The stream consumer and the finish signal.                              *)
(***************************************************************************)
\* sendToRespCh returned exit = true for a sub-response of the stream worker w is
\* consuming
AbortedByFinish(w) == wExit[w] /\ wPc[w] = "recv"

\* C17 as stated: once the attempt to enqueue a sub-response has seen the finish
\* signal, the consumer pulls no further sub-response from that stream and enqueues
\* nothing more for that task.
C17_AbortsOnFinish ==
    [][\A w \in Workers :
         AbortedByFinish(w) =>
             /\ wSeq'[w] <= wSeq[w]
             /\ wOut'[w].err = "nil" => wOut'[w].seq <= wSeq[w]]_vars

(***************************************************************************)
(* The balancer: load and hosting.                                         *)
(***************************************************************************)
\* the participating stores: the primaries of the draft tasks
ParticipatingStores ==
    {originalTasks[t].regionInfos[1].AllStores[1] : t \in DOMAIN originalTasks}

\* the valid stores of a region: its stores that participate
ValidStores(ri) == Range(ri.AllStores) \cap ParticipatingStores

\* the positions of the non-pinned regions of the draft
NonPinnedAt == {pos \in Positions(originalTasks) : pos[2] # 1}

\* every non-pinned region has the same number of valid stores, and every
\* participating store is a valid store of the same number of non-pinned regions
UniformDraft ==
    /\ \E k \in 1..Cardinality(Stores) :
          \A pos \in NonPinnedAt :
              Cardinality(ValidStores(RegionAt(originalTasks, pos))) = k
    /\ \E m \in 0..MaxCand :
          \A s \in ParticipatingStores :
              Cardinality({pos \in NonPinnedAt :
                              s \in ValidStores(RegionAt(originalTasks, pos))}) = m

\* the largest returned task has at most twice the regions of the smallest
WithinFactorTwo ==
    \A i, j \in DOMAIN balRet :
        Len(balRet[i].regionInfos) <= 2 * Len(balRet[j].regionInfos)

\* C18 as stated: for every uniform draft the largest returned task has at most
\* twice as many regions as the smallest, whatever the order of the maps.
C18_LoadBound == BalReturned /\ UniformDraft => WithinFactorTwo

\* C18. For every uniform draft in which no two regions share a region key, the
\* largest returned task has at most twice as many regions as the smallest,
\* whatever the order of the maps.
C18_LoadBoundWithoutDuplicates ==
    BalReturned /\ UniformDraft /\ ~HasDuplicateKey(originalTasks) => WithinFactorTwo

\* a uniform draft of two tasks and MaxCand candidates, all on the first store, that
\* the balancer has spread
C18_Witness ==
    /\ BalReturned /\ UniformDraft /\ ~HasDuplicateKey(originalTasks)
    /\ Len(originalTasks) = 2
    /\ Len(originalTasks[1].regionInfos) = MaxCand + 1
    /\ \A pos \in NonPinnedAt :
          Cardinality(ValidStores(RegionAt(originalTasks, pos))) = 2
    /\ balRet # originalTasks
    /\ WithinFactorTwo

\* the task stands for a participating store that is one of the region's stores
HostedBy(task, ri) ==
    \E s \in Range(ri.AllStores) \cap ParticipatingStores : AddrOf(s) = task.storeAddr

\* the task stands for a participating store
ForParticipatingStore(task) ==
    \E s \in ParticipatingStores : AddrOf(s) = task.storeAddr

\* C19. Hosting after balancing: in every returned task each region's AllStores
\* contains the store the task stands for, that store is the primary of a draft
\* task, and no returned task stands for a store that is the primary of none.
C19_HostingInvariant ==
    BalReturned =>
        \A i \in DOMAIN balRet :
            /\ ForParticipatingStore(balRet[i])
            /\ \A k \in DOMAIN balRet[i].regionInfos :
                  HostedBy(balRet[i], balRet[i].regionInfos[k])

\* a rebalanced result in which a region that also lives on a store without a task
\* was moved away from its primary store
C19_Witness ==
    /\ BalReturned
    /\ balRet # originalTasks
    /\ \E i \in DOMAIN balRet :
          \E k \in 2..Len(balRet[i].regionInfos) :
              LET ri == balRet[i].regionInfos[k]
              IN  /\ AddrOf(ri.AllStores[1]) # balRet[i].storeAddr
                  /\ Range(ri.AllStores) \ ParticipatingStores # {}
                  /\ HostedBy(balRet[i], ri)

(***************************************************************************)
(* The stream consumer and a failing receive.                              *)
(***************************************************************************)
\* response.Recv() of the current task of worker w returned an error other than io.EOF
RecvFailed(w) == wStream[w] = "err"

\* the stream of the current task of worker w ended with io.EOF
StreamEnded(w) == wStream[w] = "eof"

\* one Backoff(BoTiKVRPC) call and its outcome: the server-timeout error when it
\* succeeded, the receive error when it failed; handleTaskOnce has returned the error
\* and handleTask is handing over the error result or has left its loop
OneBackoffThenError(w) ==
    /\ Len(wBackoffs[w]) = 1
    /\ wBackoffs[w][1][1] = "BoTiKVRPC"
    /\ wErr[w] = (IF wBackoffs[w][1][2] THEN "serverTimeout" ELSE "recvErr")
    /\ wOut[w] = ErrResp(w, wIdx[w], wErr[w])
    /\ wPc[w] \in {"enq", "exit"}

\* io.EOF: handleTaskOnce returned (nil, nil) and Backoff was not called
SuccessWithoutBackoff(w) ==
    /\ wErr[w] = "nil"
    /\ wBackoffs[w] = <<>>
    /\ wPc[w] \in {"loop", "exit"}

\* after the failed receive the worker neither receives nor sends for the task: its
\* stream position, its task index and its Backoff calls stay, until the goroutine ends
NoFurtherReceiveOrRequest(w) ==
    RecvFailed(w) =>
        IF RecvFailed(w)'
        THEN /\ wSeq'[w] = wSeq[w]
             /\ wIdx'[w] = wIdx[w]
             /\ wLen'[w] = wLen[w]
             /\ wBackoffs'[w] = wBackoffs[w]
             /\ wPc'[w] \in {"enq", "exit"}
        ELSE wPc'[w] = "done"

PlacesOf(r) ==
    {<<t, k>> \in (DOMAIN originalTasks) \X (1..NumRegions) :
        k \in DOMAIN originalTasks[t].regionInfos /\ originalTasks[t].regionInfos[k].Region = r}

\* every region of the pass is in the draft once, in the task of the address its
\* RPCContext gave, and there is one task for an address
DraftOfResolvedPass ==
    /\ ~needRetry
    /\ planIdx = NumRegions + 1
    /\ \A r \in 1..NumRegions :
          /\ Cardinality(PlacesOf(r)) = 1
          /\ \A pos \in PlacesOf(r) :
                originalTasks[pos[1]].storeAddr =
                    AddrOf(originalTasks[pos[1]].regionInfos[pos[2]].AllStores[1])
    /\ \A i, j \in DOMAIN originalTasks :
          originalTasks[i].storeAddr = originalTasks[j].storeAddr => i = j
    /\ \A i \in DOMAIN originalTasks : Len(originalTasks[i].regionInfos) >= 1

\* buildBatchCopTasks has handed nothing to the balancer and has returned no task
NoTaskEmitted == balPc = "idle" /\ originalTasks = <<>> /\ planRet = <<>>

\* a pass with a missing region that is over has looked up all its regions
MissedPassLooksUpAll ==
    (needRetry /\ planPc \in {"split", "backoffError"}) => planIdx = NumRegions + 1

\* the state part of C21
PlanStates ==
    /\ MissedPassLooksUpAll
    /\ needRetry => NoTaskEmitted
    /\ planPc \in {"cacheError", "backoffError"} => NoTaskEmitted
    /\ planPc \in {"balance", "returned"} => DraftOfResolvedPass

\* the steps of a pass once a region was found missing: on to the next region, out
\* with a cache error, or after the last region to the backoff; and the pass that
\* follows the backoff begins again with the first region and no task
PlanSteps ==
    /\ (needRetry /\ planPc = "lookup") =>
          \/ planIdx <= NumRegions /\ planPc' = "lookup" /\ planIdx' = planIdx + 1 /\ needRetry'
          \/ planIdx <= NumRegions /\ planPc' = "cacheError"
          \/ planIdx > NumRegions /\ planPc' \in {"split", "backoffError"}
    /\ (needRetry /\ planPc = "split") =>
          planIdx' = 1 /\ planMap' = <<>> /\ ~needRetry' /\ planPass' = planPass + 1

\* C21. The planner returns no partial plan: a pass with a region without RPCContext
\* still looks up its remaining regions, emits no task and is begun again; tasks come
\* only from a pass that resolved every region, whose draft holds every region of the
\* pass once, in the task of its resolved store address; a cache error or a failed
\* region-miss backoff returns the error and no task.
C21_NoPartialPlan == []PlanStates /\ [][PlanSteps]_vars

\* the planner returned the tasks of its second pass, whose draft has two tasks
C21_Witness ==
    /\ planPc = "returned"
    /\ planPass = 2
    /\ planBo = 1
    /\ Len(originalTasks) = 2
    /\ DraftOfResolvedPass

(***************************************************************************)
(* balanceBatchCopTask: completion.                                        *)
(***************************************************************************)
\* the call ended in a nil dereference of storeTaskMap[id] (line 203)
BalPanicked == balPc = "panic"

\* the loop of line 185 goes on with no candidate any store of storeTaskMap can take
BalHangs == balPc = "hang"

\* C22. The balancer always completes: on every draft, also one with a candidate
\* region that lives on a store that is the primary of no draft task, the call never
\* ends in a nil dereference and never loops without end.
C22_BalancerCompletes == ~BalPanicked /\ ~BalHangs

(***************************************************************************)
(* balanceBatchCopTask: the routing fields of the returned tasks.          *)
(***************************************************************************)
\* the returned task has the storeAddr, cmdType and ctx of the draft task d, and
\* its ctx is an RPCContext
SameRouting(task, d) ==
    /\ task.storeAddr = d.storeAddr
    /\ task.cmdType = d.cmdType
    /\ task.ctx = d.ctx
    /\ task.ctx # NilCtx

\* C23. The balancer preserves the routing fields: every returned task, rebalanced
\* or not, has the storeAddr, the cmdType and the non-nil ctx of the draft task of
\* its store, so that SendReqToAddr gets an RPCContext with every task.
C23_RoutingPreserved ==
    BalReturned =>
        \A i \in DOMAIN balRet :
            \E j \in DOMAIN originalTasks : SameRouting(balRet[i], originalTasks[j])

(***************************************************************************)
(* handleTask: the rounds of a worker and the budget of its Backoffer.     *)
(***************************************************************************)
\* the task list of the worker has at most conf.fanout tasks more for each backoff
\* cycle slept, the cycles stay within the budget, and idx is at most len(tasks)
RoundsBounded(w) ==
    /\ wBo[w] <= conf.budget
    /\ wLen[w] <= 1 + conf.fanout * wBo[w]
    /\ wIdx[w] <= wLen[w] + 1

\* a worker whose handleTaskOnce returned an error holds the error result of it, and
\* is handing it to sendToRespCh or has left its loop
ErrorEndsLoop(w) ==
    wErr[w] # "nil" => wOut[w] = ErrResp(w, wIdx[w], wErr[w]) /\ wPc[w] \in {"enq", "exit"}

\* the worker goes to retryBatchCopTask only with one more backoff cycle slept, its
\* list grows only there, and with the budget used up a failed send gives an error
RetryCostsACycle(w) ==
    /\ (wPc[w] # "replan" /\ wPc'[w] = "replan") =>
          /\ wPc[w] = "send"
          /\ wBo'[w] = wBo[w] + 1
          /\ wBackoffs'[w] = <<<<"BoTiFlashRPC", TRUE>>>>
    /\ wLen'[w] > wLen[w] => wPc[w] = "replan"
    /\ (wPc[w] = "send" /\ ~CanBackoff(w) /\ wPc'[w] # "send") =>
          \/ wErr'[w] # "nil" /\ wPc'[w] = "enq"
          \/ wStream'[w] \in {"resp", "eof"}

\* a worker that left its loop only signals done
LeavesThroughDone(w) ==
    wPc[w] = "exit" => wPc'[w] = "exit" \/ (wPc'[w] = "done" /\ wg' = wg - 1)

\* C24. The worker loop terminates: every re-plan round costs a backoff cycle of the
\* worker's Backoffer, so with a budget of conf.budget cycles the list of a worker has
\* at most 1 + conf.fanout * conf.budget tasks; when the budget is used up a failing
\* send gives an error, and a worker with an error hands over that one error result
\* and signals done.
C24_WorkerLoopTerminates ==
    /\ [](\A w \in Workers : RoundsBounded(w) /\ ErrorEndsLoop(w))
    /\ [][\A w \in Workers : RetryCostsACycle(w) /\ LeavesThroughDone(w)]_vars

\* a worker used up its budget on re-plans, its list grew, and the next failing send
\* ended its loop with the error of the backoff
C24_Witness ==
    \E w \in Workers :
        /\ conf.budget >= 1
        /\ wBo[w] = conf.budget
        /\ wLen[w] > conf.budget + 1
        /\ wIdx[w] = conf.budget + 1
        /\ wErr[w] = "backoffErr"
        /\ wPc[w] = "exit"
====
